---- MODULE Spec2Model ----
(***************************************************************************)
(* Procedural track pipeline of ProcGraf-2025 (Hello3D):                   *)
(*   generateBSplinePoints  - uniform cubic B-spline sampling              *)
(*   generateTrackMesh      - ribbon extrusion of a closed centre line     *)
(*   main (car block)       - orientation frame of the animated car        *)
(*   main (animation update)- fixed-step animation clock                   *)
(*   mouse_button_callback,                                                *)
(*   key_callback           - the editor: clicks, + and -, SPACE           *)
(*                                                                         *)
(* Numbers.  A C++ float whose value decides control flow (the spline      *)
(* parameter t, the animation accumulator) is an IEEE-754 binary32 value,  *)
(* held as an integer count of FUnit-ths (2^-29) and rounded to 24         *)
(* significant bits, ties to even, after every operation.  Geometry        *)
(* (positions, offsets, frame vectors) is held exactly: a coordinate is    *)
(* an integer, or an integer plus a signed square root of a rational.      *)
(***************************************************************************)
EXTENDS Integers, Sequences, FiniteSets, TLC

(***************************************************************************)
(* Bounds of the model                                                     *)
(***************************************************************************)
MaxK == 6          \* most control points handed to generateBSplinePoints
MaxP == 12         \* largest pointsPerSegment tried besides the editor's 50
MaxNegP == 2       \* pointsPerSegment is tried down to -MaxNegP
MaxDiverge == 2    \* samples kept of a sampling loop whose t never passes 1
MaxN == 4          \* most centre-line points handed to generateTrackMesh
MaxAnyLoop == 3    \* every sequence of car points up to this length is a loop
MaxLoop == 5       \* longest animation loop of the car
MaxIdleSteps == 2  \* steps' worth of time let pile up while nothing is animated
MaxLongFrames == 1 \* frames of a run that last about five steps
MaxClicks == 4     \* most control points clicked in the editor
MaxKeyPresses == 2 \* most + and - key presses after the start level
MaxHeadStart == 14 \* presses of + that lead to the higher start level
MaxInputs == 5     \* most clicks and key presses together

(***************************************************************************)
(* binary32 arithmetic on counts of 2^-29                                  *)
(***************************************************************************)
FUnit == 536870912             \* 1.0f
FInf == 2147483647             \* +infinity
FMantissa == 24                \* significant bits of a float

RECURSIVE Pow2(_)
Pow2(n) == IF n <= 0 THEN 1 ELSE 2 * Pow2(n - 1)

RECURSIVE FloorLog2(_)
FloorLog2(m) == IF m < 2 THEN 0 ELSE 1 + FloorLog2(m \div 2)

Abs(x) == IF x < 0 THEN -x ELSE x

Sign(x) == IF x < 0 THEN -1 ELSE IF x > 0 THEN 1 ELSE 0

\* spacing of the floats around the magnitude m
FQuantum(m) ==
    LET e == FloorLog2(m)
    IN  IF e < FMantissa THEN 1 ELSE Pow2(e - (FMantissa - 1))

\* the float nearest to num/den (num, den > 0), ties to even
FRoundQuot(num, den) ==
    LET fq == num \div den
        q  == FQuantum(fq)
        lo == (fq \div q) * q
        r2 == 2 * (num - lo * den)      \* twice the remainder, times den
        h  == q * den
    IN  IF r2 < h THEN lo
        ELSE IF r2 > h THEN lo + q
        ELSE IF (lo \div q) % 2 = 0 THEN lo ELSE lo + q

\* the float nearest to the magnitude m
FRound(m) == IF m = 0 THEN 0 ELSE FRoundQuot(m, 1)

\* a + b in float
FAdd(a, b) ==
    IF a = FInf \/ b = FInf THEN FInf
    ELSE LET s == a + b IN Sign(s) * FRound(Abs(s))

\* 1.0f / n for an int n converted to float
FRecip(n) ==
    IF n = 0 THEN FInf
    ELSE Sign(n) * FRoundQuot(FUnit, Abs(n))

(***************************************************************************)
(* Vectors with integer coordinates                                        *)
(***************************************************************************)
Vec3(x, y, z) == <<x, y, z>>

VSub(a, b) == <<a[1] - b[1], a[2] - b[2], a[3] - b[3]>>

Cross(a, b) ==
    <<a[2] * b[3] - a[3] * b[2],
      a[3] * b[1] - a[1] * b[3],
      a[1] * b[2] - a[2] * b[1]>>

Dot(a, b) == a[1] * b[1] + a[2] * b[2] + a[3] * b[3]

RECURSIVE Gcd(_, _)
Gcd(a, b) == IF b = 0 THEN a ELSE Gcd(b, a % b)

VARIABLES
    \* generateBSplinePoints
    controlPoints,      \* argument: sequence of vec3
    pointsPerSegment,   \* argument: int
    step,               \* float step
    bsI,                \* window index i
    bsT,                \* float t
    curvePoints,        \* the vector being built and returned
    bsPc                \* "call", "window", "sample", "done", "idle"

curveVars == <<controlPoints, pointsPerSegment, step, bsI, bsT, curvePoints, bsPc>>

VARIABLES
    \* generateTrackMesh
    centerPoints,       \* argument: sequence of vec3
    trackWidth,         \* argument: float
    vertices,           \* output argument: sequence of Vertex
    indices,            \* output argument: sequence of unsigned int
    innerPoints,        \* local vector of n points
    outerPoints,        \* local vector of n points
    tmI,                \* loop index i
    tmPc,               \* "call", "offsets", "quads", "done", "idle"
    tmPrior             \* what the output arguments held on entry

trackVars == <<centerPoints, trackWidth, vertices, indices, innerPoints, outerPoints,
               tmI, tmPc, tmPrior>>

VARIABLES
    \* the car of the viewer
    animationPositions, \* meshes["Carro"].animationPositions
    animationIndex,     \* int animationIndex
    animAccumulator,    \* float animAccumulator
    carPlaced,          \* the last frame took the placement branch
    carPos,             \* C, the translation of the model matrix
    carRight,           \* rot[0]
    carUp,              \* rot[1]
    carForward,         \* rot[2]
    editorMode,         \* bool editorMode
    deltaTime,          \* float deltaTime of the last frame
    idx,                \* int idx of the last placement
    prevIdx,            \* int prevIdx of the last placement
    nextIdx,            \* int nextIdx of the last placement
    model,              \* glm::mat4 model sent to the shader for the car
    longFrames          \* frames so far that lasted about five steps

carVars == <<animationPositions, animationIndex, animAccumulator,
             carPlaced, carPos, carRight, carUp, carForward,
             editorMode, deltaTime, idx, prevIdx, nextIdx, model, longFrames>>

VARIABLES
    \* the editor and what SPACE produces
    editorControlPoints,     \* std::vector<glm::vec3> editorControlPoints
    editorPointYellowLevels, \* std::vector<float> editorPointYellowLevels
    currentYellowLevel,      \* float currentYellowLevel
    keyPresses,              \* + and - key presses handled in editor mode so far
    trackMesh,               \* the Mesh handed to OBJWriter, none before SPACE
    filesWritten,            \* names of the files written so far
    meshes,                  \* keys of the map meshes
    bSplineCurves            \* keys of the map bSplineCurves

editorVars == <<editorControlPoints, editorPointYellowLevels, currentYellowLevel,
                keyPresses, trackMesh, filesWritten, meshes, bSplineCurves>>

vars == <<curveVars, trackVars, carVars, editorVars>>

(***************************************************************************)
(* generateBSplinePoints                                                   *)
(***************************************************************************)
EditorPointsPerSegment == 50

\* control polygons tried: the loop of spec section 8 continued, and a
\* climbing zig-zag
ShapeFlat(j) ==
    IF j = 1 THEN Vec3(0, 0, 0)
    ELSE IF j = 2 THEN Vec3(1, 0, 0)
    ELSE IF j = 3 THEN Vec3(2, 0, 0)
    ELSE IF j = 4 THEN Vec3(3, 0, 0)
    ELSE IF j = 5 THEN Vec3(2, 1, 0)
    ELSE IF j = 6 THEN Vec3(1, 1, 0)
    ELSE Vec3(j % 3, 2, 0)

ShapeClimb(j) == Vec3(j, (j * j) % 3, j % 2)

ControlInputs ==
    UNION { { [j \in 1..k |-> ShapeFlat(j)], [j \in 1..k |-> ShapeClimb(j)] } : k \in 0..MaxK }

SegmentInputs == ((-MaxNegP)..MaxP) \cup {EditorPointsPerSegment}

\* the basis matrix, by columns, times 6
BSplineMatrix ==
    << <<-1, 3, -3, 1>>,
       <<3, -6, 3, 0>>,
       <<-3, 0, 3, 0>>,
       <<1, 4, 1, 0>> >>

\* 6 d^3 * (BSplineMatrix * T) for t = n/d, T = (t^3, t^2, t, 1)
BSplineWeights(n, d) ==
    LET T == <<n * n * n, n * n * d, n * d * d, d * d * d>>
    IN  [r \in 1..4 |->
            BSplineMatrix[1][r] * T[1] + BSplineMatrix[2][r] * T[2]
          + BSplineMatrix[3][r] * T[3] + BSplineMatrix[4][r] * T[4]]

\* 6 d^3 * (G * BSplineMatrix * T) for the window starting at control point i+1
BSplinePoint(cps, i, n, d) ==
    LET w == BSplineWeights(n, d)
    IN  [c \in 1..3 |->
            cps[i + 1][c] * w[1] + cps[i + 2][c] * w[2]
          + cps[i + 3][c] * w[3] + cps[i + 4][c] * w[4]]

\* controlPoints.size() < 4
TooFewControlPoints(cps) == Len(cps) < 4

\* i + 3 < controlPoints.size()
HasWindow(i, cps) == i + 3 < Len(cps)

\* t <= 1.0f
InSegment(t) == t <= FUnit

\* variant: the control polygon itself is handed back as the curve
EarlyReturnPolygon(cps) == cps

\* the vector returned when there are too few control points
EarlyReturnValue(cps) == <<>>

\* a pushed curve point: window i sampled at the float t
CurvePoint(i, t) == [win |-> i, t |-> t]

CurveInit ==
    /\ controlPoints \in ControlInputs
    /\ pointsPerSegment \in SegmentInputs
    /\ step = 0
    /\ bsI = 0
    /\ bsT = 0
    /\ curvePoints = <<>>
    /\ bsPc = "call"

CurveIdle ==
    /\ controlPoints = <<>>
    /\ pointsPerSegment = EditorPointsPerSegment
    /\ step = 0
    /\ bsI = 0
    /\ bsT = 0
    /\ curvePoints = <<>>
    /\ bsPc = "idle"

\* entry: the size check and the computation of step
BSplineCall ==
    /\ bsPc = "call"
    /\ IF TooFewControlPoints(controlPoints)
       THEN /\ curvePoints' = EarlyReturnValue(controlPoints)
            /\ bsPc' = "done"
            /\ UNCHANGED <<step, bsI>>
       ELSE /\ step' = FRecip(pointsPerSegment)
            /\ bsI' = 0
            /\ curvePoints' = <<>>
            /\ bsPc' = "window"
    /\ UNCHANGED <<controlPoints, pointsPerSegment, bsT>>
    /\ UNCHANGED <<trackVars, carVars, editorVars>>

\* the test of the outer loop
BSplineWindow ==
    /\ bsPc = "window"
    /\ IF HasWindow(bsI, controlPoints)
       THEN /\ bsT' = 0
            /\ bsPc' = "sample"
       ELSE /\ bsPc' = "done"
            /\ UNCHANGED bsT
    /\ UNCHANGED <<controlPoints, pointsPerSegment, step, bsI, curvePoints>>
    /\ UNCHANGED <<trackVars, carVars, editorVars>>

\* one pass of the inner loop: its test, its body and t += step
BSplineSample ==
    /\ bsPc = "sample"
    /\ InSegment(bsT)
    /\ step > 0 \/ Len(curvePoints) < MaxDiverge
    /\ curvePoints' = Append(curvePoints, CurvePoint(bsI, bsT))
    /\ bsT' = FAdd(bsT, step)
    /\ UNCHANGED <<controlPoints, pointsPerSegment, step, bsI, bsPc>>
    /\ UNCHANGED <<trackVars, carVars, editorVars>>

\* the inner loop ends: ++i
BSplineSegmentEnd ==
    /\ bsPc = "sample"
    /\ ~InSegment(bsT)
    /\ bsI' = bsI + 1
    /\ bsPc' = "window"
    /\ UNCHANGED <<controlPoints, pointsPerSegment, step, bsT, curvePoints>>
    /\ UNCHANGED <<trackVars, carVars, editorVars>>

CurveNext == BSplineCall \/ BSplineWindow \/ BSplineSample \/ BSplineSegmentEnd

(***************************************************************************)
(* Exact trigonometry.  An angle is held as an integer direction <<x, y>>  *)
(* (not both zero); a cosine, a sine or a product of one with the half     *)
(* width is a signed square root  sg * sqrt(num/den)  in lowest terms.     *)
(***************************************************************************)
RootZero == [sg |-> 0, num |-> 0, den |-> 1]

Root(sg, num, den) ==
    IF sg = 0 \/ num = 0 THEN RootZero
    ELSE LET g == Gcd(num, den)
         IN  [sg |-> sg, num |-> num \div g, den |-> den \div g]

RootNeg(r) == [sg |-> -r.sg, num |-> r.num, den |-> r.den]

\* atan2(dy, dx); atan2(0, 0) is the angle 0
Atan2(dy, dx) == IF dx = 0 /\ dy = 0 THEN <<1, 0>> ELSE <<dx, dy>>

\* theta + glm::radians(90.0f), theta - glm::radians(90.0f)
PlusQuarterTurn(theta) == <<-theta[2], theta[1]>>

MinusQuarterTurn(theta) == <<theta[2], -theta[1]>>

Cos(a) == Root(Sign(a[1]), a[1] * a[1], a[1] * a[1] + a[2] * a[2])

Sin(a) == Root(Sign(a[2]), a[2] * a[2], a[1] * a[1] + a[2] * a[2])

\* r * halfWidth, halfWidth = trackWidth * 0.5f
TimesHalfWidth(r, width) == Root(r.sg * Sign(width), r.num * width * width, r.den * 4)

\* a float coordinate: the integer i plus the root r
Coord(i, r) == [i |-> i, r |-> r]

\* glm::vec3 + and - of a centre point and an offset of roots
PointPlus(A, off) == [c \in 1..3 |-> Coord(A[c], off[c])]

PointMinus(A, off) == [c \in 1..3 |-> Coord(A[c], RootNeg(off[c]))]

(***************************************************************************)
(* generateTrackMesh                                                       *)
(***************************************************************************)
TrackPoints ==
    { Vec3(0, 0, 0), Vec3(2, 0, 1), Vec3(2, 2, 0), Vec3(0, 2, 2), Vec3(1, 1, 1) }

RECURSIVE SeqsUpTo(_, _)
SeqsUpTo(S, n) ==
    IF n = 0 THEN { <<>> }
    ELSE LET shorter == SeqsUpTo(S, n - 1)
         IN  shorter \cup { Append(q, x) : q \in { p \in shorter : Len(p) = n - 1 }, x \in S }

TrackWidths == {1, 2}

MakeVertex(p, s, t, normal) ==
    [x |-> p[1], y |-> p[2], z |-> p[3], s |-> s, t |-> t,
     nx |-> normal[1], ny |-> normal[2], nz |-> normal[3]]

\* what the caller's output vectors may hold before the call
StaleVertices ==
    <<MakeVertex(PointPlus(Vec3(7, 7, 7), <<RootZero, RootZero, RootZero>>), 0, 0, Vec3(1, 0, 0))>>

StaleIndices == <<0, 0, 0>>

\* n < 2
DegenerateLoop(n) == n < 2

\* (i + 1) % n
NextPoint(i, n) == (i + 1) % n

\* the loop tests i < n
OffsetLoopTest(i, n) == i < n

\* variant: an open ribbon, the closing edge n-1 -> 0 is left out
QuadLoopTestOpen(i, n) == i + 1 < n

QuadLoopTest(i, n) == i < n

\* variant: the quarter turn is also subtracted on dx = 0
PerpendicularAngleInclusive(dx, dy) ==
    LET theta == Atan2(dy, dx)
    IN  IF dx <= 0 THEN MinusQuarterTurn(theta) ELSE PlusQuarterTurn(theta)

\* alpha: theta - 90 degrees when dx < 0, else theta + 90 degrees
PerpendicularAngle(dx, dy) ==
    LET theta == Atan2(dy, dx)
    IN  IF dx < 0 THEN MinusQuarterTurn(theta) ELSE PlusQuarterTurn(theta)

\* variant: the offset laid in the viewer's ground plane XZ
TrackOffsetXZ(A, B, width) ==
    LET alpha == PerpendicularAngle(B[1] - A[1], B[2] - A[2])
    IN  <<TimesHalfWidth(Cos(alpha), width), RootZero, TimesHalfWidth(Sin(alpha), width)>>

\* glm::vec3 offset(cosA * halfWidth, sinA * halfWidth, 0.0f)
TrackOffset(A, B, width) ==
    LET alpha == PerpendicularAngle(B[1] - A[1], B[2] - A[2])
    IN  <<TimesHalfWidth(Cos(alpha), width), TimesHalfWidth(Sin(alpha), width), RootZero>>

InnerPoint(A, off) == PointPlus(A, off)

OuterPoint(A, off) == PointMinus(A, off)

\* variant: the viewer's up axis
UpNormalViewer == Vec3(0, 1, 0)

\* glm::vec3 upNormal(0.0f, 0.0f, 1.0f)
UpNormal == Vec3(0, 0, 1)

\* variant: the far edge listed inner first
QuadVerticesCrossed(inner, outer, i, next) ==
    <<MakeVertex(inner[i + 1],    0, 0, UpNormal),
      MakeVertex(outer[i + 1],    1, 0, UpNormal),
      MakeVertex(inner[next + 1], 1, 1, UpNormal),
      MakeVertex(outer[next + 1], 0, 1, UpNormal)>>

\* v0, v1, v2, v3 of the quad of edge i -> next
QuadVertices(inner, outer, i, next) ==
    <<MakeVertex(inner[i + 1],    0, 0, UpNormal),
      MakeVertex(outer[i + 1],    1, 0, UpNormal),
      MakeVertex(outer[next + 1], 1, 1, UpNormal),
      MakeVertex(inner[next + 1], 0, 1, UpNormal)>>

\* variant: both triangles wound the other way
QuadIndicesFlipped(base) == <<base + 0, base + 1, base + 3, base + 1, base + 2, base + 3>>

\* the two triangles of a quad whose first vertex has index base
QuadIndices(base) == <<base + 0, base + 3, base + 1, base + 1, base + 3, base + 2>>

\* a value-initialised glm::vec3
ZeroPoint == PointPlus(Vec3(0, 0, 0), <<RootZero, RootZero, RootZero>>)

TrackInit ==
    /\ centerPoints \in SeqsUpTo(TrackPoints, MaxN)
    /\ trackWidth \in TrackWidths
    /\ \/ vertices = <<>> /\ indices = <<>>
       \/ vertices = StaleVertices /\ indices = StaleIndices
    /\ tmPrior = <<vertices, indices>>
    /\ innerPoints = <<>>
    /\ outerPoints = <<>>
    /\ tmI = 0
    /\ tmPc = "call"

TrackIdle ==
    /\ centerPoints = <<>>
    /\ trackWidth = 1
    /\ vertices = <<>>
    /\ indices = <<>>
    /\ innerPoints = <<>>
    /\ outerPoints = <<>>
    /\ tmI = 0
    /\ tmPc = "idle"
    /\ tmPrior = <<vertices, indices>>

\* variant: the degenerate loop returns before the outputs are cleared
TrackCallReturnFirst ==
    /\ tmPc = "call"
    /\ IF DegenerateLoop(Len(centerPoints))
       THEN /\ tmPc' = "done"
            /\ UNCHANGED <<vertices, indices, innerPoints, outerPoints, tmI>>
       ELSE /\ vertices' = <<>>
            /\ indices' = <<>>
            /\ innerPoints' = [j \in 1..Len(centerPoints) |-> ZeroPoint]
            /\ outerPoints' = [j \in 1..Len(centerPoints) |-> ZeroPoint]
            /\ tmI' = 0
            /\ tmPc' = "offsets"
    /\ UNCHANGED <<centerPoints, trackWidth, tmPrior>>
    /\ UNCHANGED <<curveVars, carVars, editorVars>>

\* entry: clear both outputs, return on a degenerate loop, allocate the edges
TrackCall ==
    /\ tmPc = "call"
    /\ vertices' = <<>>
    /\ indices' = <<>>
    /\ IF DegenerateLoop(Len(centerPoints))
       THEN /\ tmPc' = "done"
            /\ UNCHANGED <<innerPoints, outerPoints, tmI>>
       ELSE /\ innerPoints' = [j \in 1..Len(centerPoints) |-> ZeroPoint]
            /\ outerPoints' = [j \in 1..Len(centerPoints) |-> ZeroPoint]
            /\ tmI' = 0
            /\ tmPc' = "offsets"
    /\ UNCHANGED <<centerPoints, trackWidth, tmPrior>>
    /\ UNCHANGED <<curveVars, carVars, editorVars>>

\* one pass of the first loop
TrackOffsetStep ==
    /\ tmPc = "offsets"
    /\ OffsetLoopTest(tmI, Len(centerPoints))
    /\ LET A == centerPoints[tmI + 1]
           B == centerPoints[NextPoint(tmI, Len(centerPoints)) + 1]
           offset == TrackOffset(A, B, trackWidth)
       IN  /\ innerPoints' = [innerPoints EXCEPT ![tmI + 1] = InnerPoint(A, offset)]
           /\ outerPoints' = [outerPoints EXCEPT ![tmI + 1] = OuterPoint(A, offset)]
    /\ tmI' = tmI + 1
    /\ UNCHANGED <<centerPoints, trackWidth, vertices, indices, tmPc, tmPrior>>
    /\ UNCHANGED <<curveVars, carVars, editorVars>>

\* the first loop ends, the second starts
TrackOffsetsEnd ==
    /\ tmPc = "offsets"
    /\ ~OffsetLoopTest(tmI, Len(centerPoints))
    /\ tmI' = 0
    /\ tmPc' = "quads"
    /\ UNCHANGED <<centerPoints, trackWidth, vertices, indices, innerPoints, outerPoints, tmPrior>>
    /\ UNCHANGED <<curveVars, carVars, editorVars>>

\* one pass of the second loop: four vertices and six indices
TrackQuadStep ==
    /\ tmPc = "quads"
    /\ QuadLoopTest(tmI, Len(centerPoints))
    /\ LET next == NextPoint(tmI, Len(centerPoints))
           base == Len(vertices)
       IN  /\ vertices' = vertices \o QuadVertices(innerPoints, outerPoints, tmI, next)
           /\ indices' = indices \o QuadIndices(base)
    /\ tmI' = tmI + 1
    /\ UNCHANGED <<centerPoints, trackWidth, innerPoints, outerPoints, tmPc, tmPrior>>
    /\ UNCHANGED <<curveVars, carVars, editorVars>>

\* the second loop ends, the function returns
TrackQuadsEnd ==
    /\ tmPc = "quads"
    /\ ~QuadLoopTest(tmI, Len(centerPoints))
    /\ tmPc' = "done"
    /\ UNCHANGED <<centerPoints, trackWidth, vertices, indices, innerPoints, outerPoints, tmI,
                   tmPrior>>
    /\ UNCHANGED <<curveVars, carVars, editorVars>>

TrackNext ==
    TrackCall \/ TrackOffsetStep \/ TrackOffsetsEnd \/ TrackQuadStep \/ TrackQuadsEnd

(***************************************************************************)
(* Exact direction vectors.  A glm::vec3 of the car frame is held as       *)
(* n * sqrt(num/den): n an integer vector with no common factor, num/den   *)
(* in lowest terms.  den = 0 marks a vector of NaNs.                       *)
(***************************************************************************)
NaNVec == [n |-> Vec3(0, 0, 0), num |-> 0, den |-> 0]

ZeroVec == [n |-> Vec3(0, 0, 0), num |-> 0, den |-> 1]

IsNaN(v) == v.den = 0

Scaled(n, num, den) ==
    IF den = 0 THEN NaNVec
    ELSE IF n = Vec3(0, 0, 0) \/ num = 0 THEN ZeroVec
    ELSE LET g  == Gcd(Gcd(Abs(n[1]), Abs(n[2])), Abs(n[3]))
             m  == num * g * g
             h  == Gcd(m, den)
         IN  [n |-> <<n[1] \div g, n[2] \div g, n[3] \div g>>,
              num |-> m \div h, den |-> den \div h]

Exact(v) == Scaled(v, 1, 1)

\* glm::normalize: v * inversesqrt(dot(v, v)); the zero vector gives NaNs
Normalize(v) ==
    IF IsNaN(v) \/ v = ZeroVec THEN NaNVec
    ELSE Scaled(v.n, 1, Dot(v.n, v.n))

\* glm::cross
CrossV(a, b) ==
    IF IsNaN(a) \/ IsNaN(b) THEN NaNVec
    ELSE Scaled(Cross(a.n, b.n), a.num * b.num, a.den * b.den)

\* determinant of the matrix whose columns are a, b, c
Det3(a, b, c) == Dot(a, Cross(b, c))

(***************************************************************************)
(* Model matrices.  A glm::mat4 built by the render loop is held as the    *)
(* product of its factors, left to right, with identity factors dropped    *)
(* and neighbouring scale factors multiplied together.  A scale vector is  *)
(* n / d, component by component.                                          *)
(***************************************************************************)
\* glm::mat4(1.0f)
MatIdentity == <<>>

ScaleVec(n, d) ==
    LET g == Gcd(Gcd(Gcd(Abs(n[1]), Abs(n[2])), Abs(n[3])), d)
    IN  [n |-> <<n[1] \div g, n[2] \div g, n[3] \div g>>, d |-> d \div g]

ScaleTimes(a, b) ==
    ScaleVec(<<a.n[1] * b.n[1], a.n[2] * b.n[2], a.n[3] * b.n[3]>>, a.d * b.d)

ScaleOne == ScaleVec(Vec3(1, 1, 1), 1)

\* glm::translate(m, v)
MatTranslate(m, v) ==
    IF v = Vec3(0, 0, 0) THEN m
    ELSE Append(m, [op |-> "translate", v |-> v])

\* m * rot, rot the matrix with columns right, upAxis, forward
MatBasis(m, right, upAxis, forward) ==
    Append(m, [op |-> "basis", right |-> right, up |-> upAxis, forward |-> forward])

\* glm::rotate(m, glm::radians(degrees), axis)
MatRotate(m, degrees, axis) ==
    IF degrees = 0 THEN m
    ELSE Append(m, [op |-> "rotate", degrees |-> degrees, axis |-> axis])

\* glm::scale(m, v)
MatScale(m, v) ==
    IF v = ScaleOne THEN m
    ELSE IF m # <<>> /\ m[Len(m)].op = "scale"
    THEN LET both == ScaleTimes(m[Len(m)].v, v)
         IN  IF both = ScaleOne THEN SubSeq(m, 1, Len(m) - 1)
             ELSE [m EXCEPT ![Len(m)] = [op |-> "scale", v |-> both]]
    ELSE Append(m, [op |-> "scale", v |-> v])

(***************************************************************************)
(* The car: one frame of the render loop (time step, placement, model      *)
(* matrix, animation update)                                               *)
(***************************************************************************)
STEP_TIME == FRecip(30)

\* glm::vec3(0.0f, 1.0f, 0.0f)
WorldUp == Vec3(0, 1, 0)

\* the object "Carro" as generateSceneFile writes it: Scale 0.5 0.5 0.5,
\* Position 0.0 0.0 0.0, Angle 0.0 0.0 0.0
CarScale == ScaleVec(Vec3(1, 1, 1), 2)

CarPosition == Vec3(0, 0, 0)

CarAngle == Vec3(0, 0, 0)

\* two points one above the other: loops over them have tangents that are
\* zero or parallel to WorldUp
CarPoints ==
    { Vec3(1, 0, 0), Vec3(1, 1, 0) }

\* a closed lap of n points that climbs and descends
LapPoint(i) == Vec3(i, (i * i) % 3, i % 2)

Lap(n) == [i \in 1..n |-> LapPoint(i)]

\* the animation files tried: every short sequence of CarPoints, and laps
CarLoops ==
    SeqsUpTo(CarPoints, MaxAnyLoop) \cup { Lap(n) : n \in (MaxAnyLoop + 1)..MaxLoop }

\* a long frame: twice two and a half steps, a float a little short of five
\* steps
LongFrame == 2 * FRound((5 * STEP_TIME) \div 2)

\* frame times tried: none, half a step, one step, two and a half steps, and
\* a long frame
DeltaTimes ==
    { 0, STEP_TIME \div 2, STEP_TIME, FRound((5 * STEP_TIME) \div 2), LongFrame }

\* the long frames of a run are counted up to MaxLongFrames
LongFramesAfter(dt) == IF dt = LongFrame THEN longFrames + 1 ELSE longFrames

\* animationPositions.size() >= 3
CanPlace(N) == N >= 3

CarIdx(index, N) == index % N

PrevIdx(i, N) == (i - 1 + N) % N

\* variant: the next point is the current one
NextIdxStalled(i, N) == i % N

NextIdx(i, N) == (i + 1) % N

\* dir = normalize(Np - P)
CarDir(P, Np) == Normalize(Exact(VSub(Np, P)))

\* variant: right is left unnormalised
CarRightRaw(forward) == CrossV(forward, Exact(WorldUp))

\* right = normalize(cross(forward, (0, 1, 0)))
CarRightOf(forward) == Normalize(CrossV(forward, Exact(WorldUp)))

\* upAxis = cross(right, forward)
CarUpOf(right, forward) == CrossV(right, forward)

\* model = translate(C) * rot * scale(obj.scale)
PlacedModel(C, right, upAxis, forward) ==
    MatScale(MatBasis(MatTranslate(MatIdentity, C), right, upAxis, forward),
             CarScale)

\* model = translate(obj.position)
StaticModel == MatTranslate(MatIdentity, CarPosition)

\* the three rotations and the scale applied to the model of every object
FinishModel(m) ==
    MatScale(
        MatRotate(
            MatRotate(
                MatRotate(m, CarAngle[1], Vec3(1, 0, 0)),
                CarAngle[2], Vec3(0, 1, 0)),
            CarAngle[3], Vec3(0, 0, 1)),
        CarScale)

\* variant: a step is due only when more than a step's time has piled up
StepDueStrict(acc) == acc > STEP_TIME

\* animAccumulator >= STEP_TIME
StepDue(acc) == acc >= STEP_TIME

\* the while loop of the animation update: <<accumulator, index>> after it
RECURSIVE AnimationUpdate(_, _, _)
AnimationUpdate(acc, index, N) ==
    IF StepDue(acc)
    THEN AnimationUpdate(FAdd(acc, -STEP_TIME), (index + 1) % N, N)
    ELSE <<acc, index>>

\* the program as it starts: editor mode, no scene loaded
CarInit ==
    /\ animationPositions = <<>>
    /\ animationIndex = 0
    /\ animAccumulator = 0
    /\ carPlaced = FALSE
    /\ carPos = Vec3(0, 0, 0)
    /\ carRight = Exact(Vec3(1, 0, 0))
    /\ carUp = Exact(Vec3(0, 1, 0))
    /\ carForward = Exact(Vec3(0, 0, 1))
    /\ editorMode = TRUE
    /\ deltaTime = 0
    /\ idx = 0
    /\ prevIdx = 0
    /\ nextIdx = 0
    /\ model = MatIdentity
    /\ longFrames = 0

CarIdle == CarInit

\* one frame in editor mode: the time step; the control points are drawn
EditorFrame(dt) ==
    LET acc == FAdd(animAccumulator, dt)
    IN  /\ editorMode
        /\ acc <= MaxIdleSteps * STEP_TIME
        /\ LongFramesAfter(dt) <= MaxLongFrames
        /\ longFrames' = LongFramesAfter(dt)
        /\ deltaTime' = dt
        /\ animAccumulator' = acc
        /\ UNCHANGED <<animationPositions, animationIndex, carPlaced, carPos,
                       carRight, carUp, carForward, editorMode,
                       idx, prevIdx, nextIdx, model>>
        /\ UNCHANGED <<curveVars, trackVars, editorVars>>

\* SPACE as the render loop sees it: readSceneFile fills the car's
\* animationPositions from the animation file, and editorMode goes false
SceneLoad(loop) ==
    /\ editorMode
    /\ animationPositions' = loop
    /\ editorMode' = FALSE
    /\ UNCHANGED <<animationIndex, animAccumulator, carPlaced, carPos,
                   carRight, carUp, carForward, deltaTime,
                   idx, prevIdx, nextIdx, model, longFrames>>
    /\ UNCHANGED <<curveVars, trackVars, editorVars>>

\* one frame of the viewer: the time step, the car's matrix, the animation
ViewerFrame(dt) ==
    LET N   == Len(animationPositions)
        acc == FAdd(animAccumulator, dt)
    IN  /\ ~editorMode
        /\ N # 0 \/ acc <= MaxIdleSteps * STEP_TIME
        /\ LongFramesAfter(dt) <= MaxLongFrames
        /\ longFrames' = LongFramesAfter(dt)
        /\ deltaTime' = dt
        /\ IF CanPlace(N)
           THEN LET i       == CarIdx(animationIndex, N)
                    p       == PrevIdx(i, N)
                    n       == NextIdx(i, N)
                    P       == animationPositions[p + 1]
                    C       == animationPositions[i + 1]
                    Np      == animationPositions[n + 1]
                    forward == CarDir(P, Np)
                    right   == CarRightOf(forward)
                    upAxis  == CarUpOf(right, forward)
                IN  /\ carPlaced' = TRUE
                    /\ idx' = i
                    /\ prevIdx' = p
                    /\ nextIdx' = n
                    /\ carPos' = C
                    /\ carRight' = right
                    /\ carUp' = upAxis
                    /\ carForward' = forward
                    /\ model' = FinishModel(PlacedModel(C, right, upAxis, forward))
           ELSE /\ carPlaced' = FALSE
                /\ model' = FinishModel(StaticModel)
                /\ UNCHANGED <<carPos, carRight, carUp, carForward,
                               idx, prevIdx, nextIdx>>
        /\ IF N # 0
           THEN LET after == AnimationUpdate(acc, animationIndex, N)
                IN  /\ animAccumulator' = after[1]
                    /\ animationIndex' = after[2]
           ELSE /\ animAccumulator' = acc
                /\ UNCHANGED animationIndex
        /\ UNCHANGED <<animationPositions, editorMode>>
        /\ UNCHANGED <<curveVars, trackVars, editorVars>>

EditorFrames == \E dt \in DeltaTimes : EditorFrame(dt)

SceneLoads == \E loop \in CarLoops : SceneLoad(loop)

ViewerFrames == \E dt \in DeltaTimes : ViewerFrame(dt)

CarNext == EditorFrames \/ SceneLoads \/ ViewerFrames

(***************************************************************************)
(* The editor: mouse_button_callback and key_callback.  Heights are floats *)
(* held as counts of YUnit-ths (2^-25).  A float that only travels         *)
(* through the pipeline (a coordinate of a curve sample, of a ribbon       *)
(* point) is held as a term naming where it comes from.                    *)
(***************************************************************************)
YUnit == 33554432

\* const float yellowStep = 0.3f
yellowStep == FRoundQuot(3 * YUnit, 10)

\* const float maxHeight = 5.0f
maxHeight == 5 * YUnit

\* glm::clamp(x, lo, hi)
\* variant: bounded below only
ClampBelow(x, lo, hi) == IF x < lo THEN lo ELSE x

Clamp(x, lo, hi) == IF x < lo THEN lo ELSE IF x > hi THEN hi ELSE x

\* currentYellowLevel after n presses of + from its initial 0.5f
RECURSIVE LevelAfterPlus(_)
LevelAfterPlus(n) ==
    IF n = 0 THEN YUnit \div 2
    ELSE Clamp(FAdd(LevelAfterPlus(n - 1), yellowStep), 0, maxHeight)

\* levels the editor is started from: the initial one, and the one a user
\* reaches by holding + before the first click
StartLevels == {LevelAfterPlus(0), LevelAfterPlus(MaxHeadStart)}

\* where the ray of a click meets the plane z = 0
EditorClicks == { <<0, 0>>, <<1, 3>> }

\* ctrlPoints3D: (p.x, p.y, yl)
CtrlPoints3D(points, levels) ==
    [i \in 1..Len(points) |-> <<points[i][1], points[i][2], levels[i]>>]

\* the inner loop of generateBSplinePoints from t on: the points it pushes
RECURSIVE SampleWindow(_, _, _)
SampleWindow(i, t, stp) ==
    IF InSegment(t)
    THEN <<CurvePoint(i, t)>> \o SampleWindow(i, FAdd(t, stp), stp)
    ELSE <<>>

\* the outer loop of generateBSplinePoints from window i on
RECURSIVE SampleWindows(_, _, _)
SampleWindows(i, cps, stp) ==
    IF HasWindow(i, cps)
    THEN SampleWindow(i, 0, stp) \o SampleWindows(i + 1, cps, stp)
    ELSE <<>>

\* generateBSplinePoints(cps, n) for n > 0, as one value
GenerateBSplinePoints(cps, n) ==
    IF TooFewControlPoints(cps) THEN EarlyReturnValue(cps)
    ELSE SampleWindows(0, cps, FRecip(n))

\* a coordinate of the inner or outer point of curve sample j
RibbonPoint(side, j) ==
    [c \in 1..3 |-> [side |-> side, at |-> j, c |-> c]]

\* generateTrackMesh on a centre line of n points, as one value
GenerateTrackMesh(n) ==
    IF DegenerateLoop(n) THEN [vertices |-> <<>>, indices |-> <<>>]
    ELSE LET inner == [j \in 1..n |-> RibbonPoint("inner", j - 1)]
             outer == [j \in 1..n |-> RibbonPoint("outer", j - 1)]
         IN  [vertices |->
                  [k \in 1..(4 * n) |->
                      QuadVertices(inner, outer, (k - 1) \div 4,
                                   NextPoint((k - 1) \div 4, n))[((k - 1) % 4) + 1]],
              indices |->
                  [k \in 1..(6 * n) |->
                      QuadIndices(4 * ((k - 1) \div 6))[((k - 1) % 6) + 1]]]

\* variant: the position remapped and the normal left as generated
SwapYZPositionOnly(v) ==
    [x |-> v.x, y |-> v.z, z |-> v.y, s |-> v.s, t |-> v.t,
     nx |-> v.nx, ny |-> v.ny, nz |-> v.nz]

\* a vertex of trackVerts: y and z swapped, in position and in normal
SwapYZ(v) ==
    [x |-> v.x, y |-> v.z, z |-> v.y, s |-> v.s, t |-> v.t,
     nx |-> v.nx, ny |-> v.nz, nz |-> v.ny]

\* a coordinate (1 = x, 2 = y, 3 = z) of a curve sample, as a term
CurveCoord(point, c) == [of |-> point, c |-> c]

\* a coordinate known as a float, in counts of 2^-29
Known(n) == [value |-> n]

IsKnown(v) == "value" \in DOMAIN v

\* the last column of BSplineMatrix: 1.0f/6.0f, 4.0f/6.0f, 1.0f/6.0f, 0.0f
MatrixLastColumn == <<FRecip(6), FRoundQuot(2 * FUnit, 3), FRecip(6), 0>>

\* G * BSplineMatrix * T at t = 0, where T = (0, 0, 0, 1): the products of
\* the window's four control coordinates (whole numbers) with the last
\* column, summed left to right in float
WindowStart(cps, i, c) ==
    LET prod(k) == FRound(cps[i + k][c] * MatrixLastColumn[k])
    IN  FAdd(FAdd(FAdd(prod(1), prod(2)), prod(3)), prod(4))

\* coordinate c of the curve point of a sample: computed for x and y at the
\* start of a window, carried as a term everywhere else
CoordValue(cps, point, c) ==
    IF point.t = 0 /\ c \in {1, 2}
    THEN Known(WindowStart(cps, point.win, c))
    ELSE CurveCoord(point, c)

\* significant digits written by operator<< (the stream's default precision)
SigDigits == 6

\* digits * 10^-exp without trailing zeros
RECURSIVE Stripped(_, _)
Stripped(digits, exp) ==
    IF exp > 0 /\ digits % 10 = 0
    THEN Stripped(digits \div 10, exp - 1)
    ELSE [digits |-> digits, exp |-> exp]

\* the decimal digits of frac / 2^bits after the digits d already taken
\* (exp of them fractional), until need significant ones are there; the
\* rest rounds to nearest, ties to even
RECURSIVE DecimalDigits(_, _, _, _, _)
DecimalDigits(frac, bits, d, exp, need) ==
    IF frac = 0 THEN Stripped(d, exp)
    ELSE IF need = 0
    THEN LET up == 2 * frac > Pow2(bits) \/ (2 * frac = Pow2(bits) /\ d % 2 = 1)
         IN  Stripped(IF up THEN d + 1 ELSE d, exp)
    ELSE LET half  == Pow2(bits - 1)
             digit == 5 * (frac \div half) + (5 * (frac % half)) \div half
             d1    == 10 * d + digit
         IN  DecimalDigits((5 * (frac % half)) % half, bits - 1, d1, exp + 1,
                           IF d1 = 0 THEN need ELSE need - 1)

\* the text operator<< writes for the float n / 2^29, 0 <= n
DecimalText(n) ==
    LET whole == n \div FUnit
    IN  DecimalDigits(n % FUnit, 29, whole, 0,
                      IF whole = 0 THEN SigDigits ELSE SigDigits - 1)

\* floor(2^bits * rem / den) added to acc * 2^bits, and what is left of rem
RECURSIVE BinaryDigits(_, _, _, _)
BinaryDigits(rem, den, bits, acc) ==
    IF bits = 0 THEN [count |-> acc, rem |-> rem]
    ELSE IF 2 * rem >= den
         THEN BinaryDigits(2 * rem - den, den, bits - 1, 2 * acc + 1)
         ELSE BinaryDigits(2 * rem, den, bits - 1, 2 * acc)

RECURSIVE Pow10(_)
Pow10(n) == IF n <= 0 THEN 1 ELSE 10 * Pow10(n - 1)

\* the float operator>> reads from a text: the nearest to digits * 10^-exp,
\* ties to even, in counts of 2^-29
DecimalValue(text) ==
    LET den  == Pow10(text.exp)
        b    == BinaryDigits(text.digits % den, den, 29, text.digits \div den)
        n    == b.count                 \* counts of 2^-29, rounded down
        q    == FQuantum(n)
        lo   == (n \div q) * q
        over == IF q = 1 THEN 2 * b.rem ELSE 2 * (n - lo)
        half == IF q = 1 THEN den ELSE q
        more == q > 1 /\ b.rem > 0
    IN  IF over < half \/ (over = half /\ ~more /\ (lo \div q) % 2 = 0) THEN lo
        ELSE lo + q

\* operator<< of a float: its decimal text of 6 significant digits
Printed(value) ==
    IF IsKnown(value) THEN [text |-> DecimalText(value.value)]
    ELSE [printed |-> value]

\* operator>> into a float: the float nearest to the decimal text
Parsed(text) ==
    IF "text" \in DOMAIN text THEN Known(DecimalValue(text.text))
    ELSE [parsed |-> text]

\* exportAnimationPoints: one line per point, x, then z, then y
AnimationLines(cps, points) ==
    [j \in 1..Len(points) |->
        <<Printed(CoordValue(cps, points[j], 1)),
          Printed(CoordValue(cps, points[j], 3)),
          Printed(CoordValue(cps, points[j], 2))>>]

\* readSceneFile: the car's animationPositions read back from the lines
AnimationPositionsOf(lines) ==
    [j \in 1..Len(lines) |->
        <<Parsed(lines[j][1]), Parsed(lines[j][2]), Parsed(lines[j][3])>>]

NoMesh == [vertices |-> <<>>, indices |-> <<>>, written |-> FALSE]

EditorStart(level) ==
    /\ editorControlPoints = <<>>
    /\ editorPointYellowLevels = <<>>
    /\ currentYellowLevel = level
    /\ keyPresses = 0
    /\ trackMesh = NoMesh
    /\ filesWritten = {}
    /\ meshes = {}
    /\ bSplineCurves = {}

EditorInit == \E level \in StartLevels : EditorStart(level)

EditorIdle == EditorStart(LevelAfterPlus(0))

\* the run has not used up its clicks and key presses
InputsLeft == Len(editorControlPoints) + keyPresses < MaxInputs

\* variant: a click adds a point in viewer mode too
MouseClickAnyMode(at) ==
    /\ Len(editorControlPoints) < MaxClicks
    /\ InputsLeft
    /\ editorControlPoints' = Append(editorControlPoints, Vec3(at[1], at[2], 0))
    /\ editorPointYellowLevels' = Append(editorPointYellowLevels, currentYellowLevel)
    /\ UNCHANGED <<currentYellowLevel, keyPresses, trackMesh, filesWritten,
                   meshes, bSplineCurves>>
    /\ UNCHANGED <<curveVars, trackVars, carVars>>

\* variant: a click adds the point and no height for it
MouseClickNoLevel(at) ==
    /\ IF editorMode
       THEN /\ Len(editorControlPoints) < MaxClicks
            /\ InputsLeft
            /\ editorControlPoints' = Append(editorControlPoints, Vec3(at[1], at[2], 0))
       ELSE UNCHANGED editorControlPoints
    /\ UNCHANGED <<editorPointYellowLevels, currentYellowLevel, keyPresses, trackMesh,
                   filesWritten, meshes, bSplineCurves>>
    /\ UNCHANGED <<curveVars, trackVars, carVars>>

\* mouse_button_callback: a left click adds a control point in editor mode
MouseClick(at) ==
    /\ IF editorMode
       THEN /\ Len(editorControlPoints) < MaxClicks
            /\ InputsLeft
            /\ editorControlPoints' = Append(editorControlPoints, Vec3(at[1], at[2], 0))
            /\ editorPointYellowLevels' = Append(editorPointYellowLevels, currentYellowLevel)
       ELSE UNCHANGED <<editorControlPoints, editorPointYellowLevels>>
    /\ UNCHANGED <<currentYellowLevel, keyPresses, trackMesh, filesWritten,
                   meshes, bSplineCurves>>
    /\ UNCHANGED <<curveVars, trackVars, carVars>>

\* variant: a key press moves every stored height to the new level
LevelsAllFollow(levels, level) == [i \in DOMAIN levels |-> level]

\* editorPointYellowLevels.back() = currentYellowLevel, when there is a point
LevelsAfterKey(levels, level) ==
    IF levels # <<>> THEN [levels EXCEPT ![Len(levels)] = level] ELSE levels

\* key_callback, + or -: the level moves by change, the last point follows
KeyLevel(change) ==
    /\ IF editorMode
       THEN /\ keyPresses < MaxKeyPresses
            /\ InputsLeft
            /\ keyPresses' = keyPresses + 1
            /\ currentYellowLevel' =
                   Clamp(FAdd(currentYellowLevel, change), 0, maxHeight)
            /\ editorPointYellowLevels' =
                   LevelsAfterKey(editorPointYellowLevels, currentYellowLevel')
       ELSE UNCHANGED <<keyPresses, currentYellowLevel, editorPointYellowLevels>>
    /\ UNCHANGED <<editorControlPoints, trackMesh, filesWritten, meshes, bSplineCurves>>
    /\ UNCHANGED <<curveVars, trackVars, carVars>>

\* the + key and the - key
KeyLevels == \E change \in {yellowStep, -yellowStep} : KeyLevel(change)

\* variant: SPACE runs the pipeline with no control points too
SpaceRunsUnguarded == editorMode

\* if (editorMode && !editorControlPoints.empty())
SpaceRuns == editorMode /\ editorControlPoints # <<>>

\* key_callback, SPACE: the generation pipeline and the switch to the viewer
KeySpace ==
    /\ IF SpaceRuns
       THEN \E ctrlPoints3D \in {CtrlPoints3D(editorControlPoints, editorPointYellowLevels)} :
            \E points \in {GenerateBSplinePoints(ctrlPoints3D, EditorPointsPerSegment)} :
            \E mesh \in {GenerateTrackMesh(Len(points))} :
            \E trackVerts \in {[k \in 1..Len(mesh.vertices) |-> SwapYZ(mesh.vertices[k])]} :
                /\ trackMesh' = [vertices |-> trackVerts, indices |-> mesh.indices,
                                 written |-> TRUE]
                /\ filesWritten' =
                       filesWritten \cup {"track.obj", "animation.txt", "Scene.txt"}
                /\ meshes' = meshes \cup {"Track", "Carro"}
                /\ bSplineCurves' = bSplineCurves \cup {"Curve1"}
                /\ animationPositions' = AnimationPositionsOf(AnimationLines(ctrlPoints3D, points))
                /\ curvePoints' = points
                /\ vertices' = mesh.vertices
                /\ indices' = mesh.indices
                /\ editorMode' = FALSE
       ELSE UNCHANGED <<trackMesh, filesWritten, meshes, bSplineCurves,
                        animationPositions, curvePoints, vertices, indices,
                        editorMode>>
    /\ UNCHANGED <<editorControlPoints, editorPointYellowLevels, currentYellowLevel,
                   keyPresses>>
    /\ UNCHANGED <<animationIndex, animAccumulator, carPlaced, carPos, carRight,
                   carUp, carForward, deltaTime, idx, prevIdx, nextIdx, model,
                   longFrames>>
    /\ UNCHANGED <<controlPoints, pointsPerSegment, step, bsI, bsT, bsPc>>
    /\ UNCHANGED <<centerPoints, trackWidth, innerPoints, outerPoints, tmI, tmPc,
                   tmPrior>>

MouseClicks == \E at \in EditorClicks : MouseClick(at)

EditorNext == MouseClicks \/ KeyLevels \/ KeySpace

(***************************************************************************)
(* Specifications: each component run on its own inputs                    *)
(***************************************************************************)
InitCurve == CurveInit /\ TrackIdle /\ CarIdle /\ EditorIdle

SpecCurve == InitCurve /\ [][CurveNext]_vars

InitTrack == TrackInit /\ CurveIdle /\ CarIdle /\ EditorIdle

SpecTrack == InitTrack /\ [][TrackNext]_vars

InitCar == CarInit /\ CurveIdle /\ TrackIdle /\ EditorIdle

SpecCar == InitCar /\ [][CarNext]_vars

InitEditor == EditorInit /\ CurveIdle /\ TrackIdle /\ CarIdle

SpecEditor == InitEditor /\ [][EditorNext]_vars

(***************************************************************************)
(* Properties                                                              *)
(***************************************************************************)
\* the frame of the last placement is a real one: forward was non-zero and
\* not parallel to WorldUp
ProperFrame ==
    /\ carPlaced
    /\ ~IsNaN(carForward)
    /\ ~IsNaN(carRight)

\* determinant of the matrix with columns right, up, forward, as sign and
\* squared magnitude  (sign * sqrt(sq[1] / sq[2]))
FrameDetSign == Sign(Det3(carRight.n, carUp.n, carForward.n))

FrameDetSquare ==
    LET d == Det3(carRight.n, carUp.n, carForward.n)
    IN  <<d * d * carRight.num * carUp.num * carForward.num,
          carRight.den * carUp.den * carForward.den>>

\* C1: whenever the car is placed on a loop of N >= 3 points with a forward
\* vector that is non-zero and not parallel to worldUp, the columns
\* {right, up, forward} are right-handed: cross(right, up) = +forward and
\* the determinant of the 3x3 matrix is +1.
C1_FrameRightHanded ==
    ProperFrame =>
        /\ CrossV(carRight, carUp) = carForward
        /\ FrameDetSign = 1
        /\ FrameDetSquare[1] = FrameDetSquare[2]

\* number of control points, and the curve finished
K == Len(controlPoints)

CurveDone == bsPc = "done"

\* C2: for k >= 4 control points and P >= 1 the returned curve has exactly
\* (k-3)*(P+1) points.
C2_PointCount ==
    CurveDone /\ K >= 4 /\ pointsPerSegment >= 1
        => Len(curvePoints) = (K - 3) * (pointsPerSegment + 1)

\* the float t is s/P to within 2^-17 (t and s/P compared in units of 2^-19)
NearFraction(t, s, P) == Abs((t \div 1024) * P - s * 524288) <= 5 * P

\* 6 d^3 times the position of a curve point whose t is n/d in lowest terms
CurveValue(cp) ==
    LET g == Gcd(cp.t, FUnit)
    IN  BSplinePoint(controlPoints, cp.win, cp.t \div g, FUnit \div g)

\* C3: for k >= 4 and P >= 1 the output is window-major with increasing t:
\* position w*(P+1)+s holds window w sampled at t = s/P, and the first
\* point is (1/6)P0 + (4/6)P1 + (1/6)P2.
C3_WindowMajorOrder ==
    CurveDone /\ K >= 4 /\ pointsPerSegment >= 1
        => /\ \A w \in 0..(K - 4) : \A s \in 0..pointsPerSegment :
                LET pos == w * (pointsPerSegment + 1) + s + 1
                IN  /\ pos \in DOMAIN curvePoints
                    /\ curvePoints[pos].win = w
                    /\ NearFraction(curvePoints[pos].t, s, pointsPerSegment)
           /\ curvePoints[1].t = 0
           /\ CurveValue(curvePoints[1]) =
                [c \in 1..3 |-> controlPoints[1][c] + 4 * controlPoints[2][c]
                                + controlPoints[3][c]]

\* C4: with fewer than 4 control points the function returns at once, for
\* every pointsPerSegment, and what it returns is the empty sequence.
C4_TooFewIsEmpty ==
    K < 4 => /\ bsPc \in {"call", "done"}
             /\ CurveDone => curvePoints = <<>>

C4_Witness == CurveDone /\ K = 3 /\ pointsPerSegment = 0 /\ curvePoints = <<>>

\* number of centre-line points, and the mesh finished
NCenter == Len(centerPoints)

TrackDone == tmPc = "done"

\* C5: a loop of n >= 2 points gives exactly 4n vertices and 6n indices.
C5_MeshSize ==
    TrackDone /\ NCenter >= 2
        => /\ Len(vertices) = 4 * NCenter
           /\ Len(indices) = 6 * NCenter

C5_Witness == TrackDone /\ NCenter = 4 /\ Len(vertices) = 16 /\ Len(indices) = 24

Position(v) == <<v.x, v.y, v.z>>

\* inner[j] and outer[j] of the claim, j counted from 0
InnerOf(j) ==
    PointPlus(centerPoints[j + 1],
              TrackOffset(centerPoints[j + 1], centerPoints[((j + 1) % NCenter) + 1], trackWidth))

OuterOf(j) ==
    PointMinus(centerPoints[j + 1],
               TrackOffset(centerPoints[j + 1], centerPoints[((j + 1) % NCenter) + 1], trackWidth))

\* C6: the vertices at 4i..4i+3 are inner[i], outer[i], outer[(i+1) mod n],
\* inner[(i+1) mod n], every quad having four vertices of its own.
C6_QuadCorners ==
    TrackDone /\ NCenter >= 2
        => /\ Len(vertices) = 4 * NCenter
           /\ \A i \in 0..(NCenter - 1) :
                /\ Position(vertices[4 * i + 1]) = InnerOf(i)
                /\ Position(vertices[4 * i + 2]) = OuterOf(i)
                /\ Position(vertices[4 * i + 3]) = OuterOf((i + 1) % NCenter)
                /\ Position(vertices[4 * i + 4]) = InnerOf((i + 1) % NCenter)

\* a finished mesh whose inner and outer edge differ at both ends of a quad
C6_Witness ==
    /\ TrackDone /\ NCenter = 3
    /\ Position(vertices[3]) # Position(vertices[4])
    /\ Position(vertices[1]) # Position(vertices[2])
    /\ Position(vertices[10]) = OuterOf(2)
    /\ Position(vertices[11]) = OuterOf(0)

\* the mesh is being emitted or is finished
Emitting == tmPc \in {"quads", "done"}

\* C7: the six indices of quad i are 4i, 4i+3, 4i+1, 4i+1, 4i+3, 4i+2; every
\* index is below the vertex count and points into its own quad.
C7_QuadTriangles ==
    Emitting
        => /\ Len(indices) % 6 = 0
           /\ \A i \in 0..((Len(indices) \div 6) - 1) :
                /\ indices[6 * i + 1] = 4 * i + 0
                /\ indices[6 * i + 2] = 4 * i + 3
                /\ indices[6 * i + 3] = 4 * i + 1
                /\ indices[6 * i + 4] = 4 * i + 1
                /\ indices[6 * i + 5] = 4 * i + 3
                /\ indices[6 * i + 6] = 4 * i + 2
           /\ \A k \in DOMAIN indices :
                /\ indices[k] < Len(vertices)
                /\ indices[k] \div 4 = (k - 1) \div 6

C7_Witness == TrackDone /\ NCenter = 3 /\ Len(indices) = 18 /\ indices[14] = 11

\* C8: every vertex has normal (0,0,1) and the UVs of a quad are (0,0),
\* (1,0), (1,1), (0,1) in this order, whatever the geometry and the width.
C8_NormalsAndUVs ==
    Emitting
        => \A k \in DOMAIN vertices :
                LET v == vertices[k]
                    c == (k - 1) % 4
                IN  /\ <<v.nx, v.ny, v.nz>> = <<0, 0, 1>>
                    /\ <<v.s, v.t>> = IF c = 0 THEN <<0, 0>>
                                      ELSE IF c = 1 THEN <<1, 0>>
                                      ELSE IF c = 2 THEN <<1, 1>>
                                      ELSE <<0, 1>>

\* the square of spec section 8 with width 2, finished: 16 vertices
C8_Witness ==
    /\ TrackDone
    /\ trackWidth = 2
    /\ centerPoints = <<Vec3(0, 0, 0), Vec3(2, 0, 1), Vec3(2, 2, 0), Vec3(0, 2, 2)>>
    /\ Len(vertices) = 16
    /\ vertices[16].nz = 1

\* C9: on a centre line of 0 or 1 points the function returns at once with
\* both outputs empty, also when they held something on entry.
C9_DegenerateIsEmpty ==
    NCenter < 2 => /\ tmPc \in {"call", "done"}
                   /\ TrackDone => vertices = <<>> /\ indices = <<>>

C9_Witness ==
    /\ TrackDone /\ NCenter = 1
    /\ tmPrior = <<StaleVertices, StaleIndices>>
    /\ vertices = <<>> /\ indices = <<>>

\* the third coordinate is exactly the integer h
HeightIs(coord, h) == coord = Coord(h, RootZero)

\* C10: the third coordinate of inner[j] and outer[j], and of every vertex
\* made from them, is the third coordinate of center[j].
C10_HeightKept ==
    /\ tmPc \in {"offsets", "quads", "done"} /\ NCenter >= 2 =>
          \A j \in 0..(NCenter - 1) :
              (tmPc = "offsets" => j < tmI) =>
                  /\ HeightIs(innerPoints[j + 1][3], centerPoints[j + 1][3])
                  /\ HeightIs(outerPoints[j + 1][3], centerPoints[j + 1][3])
    /\ Emitting =>
          \A k \in DOMAIN vertices :
              LET i == (k - 1) \div 4
                  c == (k - 1) % 4
                  j == IF c \in {0, 1} THEN i ELSE (i + 1) % NCenter
              IN  HeightIs(vertices[k].z, centerPoints[j + 1][3])

\* a finished mesh over points of different heights, offset sideways
C10_Witness ==
    /\ TrackDone /\ NCenter = 3
    /\ centerPoints[1][3] # centerPoints[2][3]
    /\ vertices[1].x # vertices[2].x
    /\ vertices[3].z = Coord(centerPoints[2][3], RootZero)

\* (width/2) * num / sqrt(sq) as a root, num an integer, sq > 0
HalfWidthTimes(num, sq, width) ==
    Root(Sign(num) * Sign(width), num * num * width * width, 4 * sq)

\* the offset C11 describes for the edge A -> B, from the values of
\* cos(theta -+ 90) and sin(theta -+ 90): theta - 90 gives (sin theta,
\* -cos theta), theta + 90 gives (-sin theta, cos theta); a zero edge has
\* theta = 0
ClaimedOffset(A, B, width) ==
    LET dx == B[1] - A[1]
        dy == B[2] - A[2]
        sq == dx * dx + dy * dy
    IN  IF dx < 0
        THEN <<HalfWidthTimes(dy, sq, width), HalfWidthTimes(-dx, sq, width), RootZero>>
        ELSE IF sq = 0
        THEN <<RootZero, HalfWidthTimes(1, 1, width), RootZero>>
        ELSE <<HalfWidthTimes(-dy, sq, width), HalfWidthTimes(dx, sq, width), RootZero>>

\* C11: for point A with cyclic successor B the perpendicular angle is
\* theta - 90 degrees when B.x - A.x < 0 and theta + 90 degrees otherwise
\* (also on vertical and zero-length edges), and inner/outer are A plus/minus
\* (width/2) * (cos alpha, sin alpha, 0).
C11_PerpendicularRule ==
    tmPc \in {"offsets", "quads", "done"} /\ NCenter >= 2 =>
        \A j \in 0..(NCenter - 1) :
            (tmPc = "offsets" => j < tmI) =>
                LET A   == centerPoints[j + 1]
                    B   == centerPoints[((j + 1) % NCenter) + 1]
                    off == ClaimedOffset(A, B, trackWidth)
                IN  /\ innerPoints[j + 1] = PointPlus(A, off)
                    /\ outerPoints[j + 1] = PointMinus(A, off)

\* a finished mesh with a vertical edge, a zero-length edge and an edge
\* running towards smaller x
C11_Witness ==
    /\ TrackDone /\ NCenter = 4
    /\ centerPoints = <<Vec3(2, 0, 1), Vec3(2, 2, 0), Vec3(2, 2, 0), Vec3(0, 2, 2)>>
    /\ innerPoints[1][1] = Coord(2, HalfWidthTimes(-1, 1, trackWidth))
    /\ innerPoints[2][2] = Coord(2, HalfWidthTimes(1, 1, trackWidth))

\* C18: with pointsPerSegment <= 0 and at least 4 control points the call
\* fails fast: it never computes 1.0f / pointsPerSegment (no division by
\* zero, no infinite step), pushes no curve point and returns at once.
C18_NonPositiveFailsFast ==
    K >= 4 /\ pointsPerSegment <= 0 =>
        /\ curvePoints = <<>>
        /\ step # FInf
        /\ bsPc \in {"call", "done"}

\* length of the car's loop
LoopLength == Len(animationPositions)

\* C12: on a loop of N >= 3 points the frame uses idx = animationIndex mod N,
\* prev = (idx-1+N) mod N and next = (idx+1) mod N, all within 0..N-1 and
\* pairwise distinct, and the car is put at loop[idx]; with fewer than 3
\* points no placement is computed and the static position is used.
C12_PlacementIndices ==
    [][ ~editorMode =>
          IF LoopLength >= 3
          THEN /\ carPlaced'
               /\ idx' = animationIndex % LoopLength
               /\ prevIdx' = (idx' - 1 + LoopLength) % LoopLength
               /\ nextIdx' = (idx' + 1) % LoopLength
               /\ {idx', prevIdx', nextIdx'} \subseteq 0..(LoopLength - 1)
               /\ Cardinality({idx', prevIdx', nextIdx'}) = 3
               /\ carPos' = animationPositions[idx' + 1]
               /\ carPos' # Vec3(0, 0, 0) =>
                      model'[1] = [op |-> "translate", v |-> carPos']
          ELSE /\ ~carPlaced'
               /\ \A k \in 1..Len(model') :
                      /\ model'[k].op # "basis"
                      /\ model'[k].op = "translate" => model'[k].v = CarPosition
      ]_vars

\* the car placed on the last point of a lap of 5: next wraps to 0
C12_Witness ==
    /\ carPlaced /\ LoopLength = 5
    /\ idx = 4 /\ prevIdx = 3 /\ nextIdx = 0
    /\ carPos = animationPositions[5]

\* squared length of a frame vector, as <<numerator, denominator>>
LengthSquare(v) == <<Dot(v.n, v.n) * v.num, v.den>>

\* C13: in a non-degenerate placement forward, right and up are mutually
\* orthogonal and each of unit length.
C13_FrameOrthonormal ==
    ProperFrame =>
        /\ Dot(carForward.n, carRight.n) = 0
        /\ Dot(carForward.n, carUp.n) = 0
        /\ Dot(carRight.n, carUp.n) = 0
        /\ \A v \in {carForward, carRight, carUp} :
               LengthSquare(v)[1] = LengthSquare(v)[2]

\* a frame whose forward vector climbs
C13_Witness ==
    /\ ProperFrame
    /\ carForward.n[2] # 0
    /\ carForward.n[1] # 0 \/ carForward.n[3] # 0

\* C14: an update with a non-empty loop adds deltaTime >= 0 and steps the
\* index while the accumulator is at least STEP_TIME; afterwards
\* 0 <= animAccumulator < STEP_TIME and the number of steps taken is
\* floor((old accumulator + deltaTime) / STEP_TIME).
C14_AccumulatorAndSteps ==
    [][ ~editorMode /\ LoopLength > 0 /\ deltaTime' >= 0 =>
          /\ 0 <= animAccumulator'
          /\ animAccumulator' < STEP_TIME
          /\ animationIndex' =
                 (animationIndex
                    + ((animAccumulator + deltaTime') \div STEP_TIME)) % LoopLength
      ]_vars

\* C15: the index stays within 0..L-1 and wraps: one update with
\* deltaTime = STEP_TIME from an accumulator of 0 moves it to
\* (index + 1) mod L, so L such updates from index 0 visit 1, 2, ..., L-1, 0.
C15_IndexWraps ==
    [][ ~editorMode /\ LoopLength > 0 =>
          /\ animationIndex' \in 0..(LoopLength - 1)
          /\ animAccumulator = 0 /\ deltaTime' = STEP_TIME =>
                 /\ animationIndex' = (animationIndex + 1) % LoopLength
                 /\ animAccumulator' = 0
      ]_vars

\* on a lap of 5 the frame drawn at index 4 is followed by index 0
C15_Witness ==
    /\ ~editorMode /\ LoopLength = 5
    /\ deltaTime = STEP_TIME /\ animAccumulator = 0
    /\ idx = 4 /\ animationIndex = 0

\* one update: the time step and the while loop
Advance(acc, index, N, dt) == AnimationUpdate(FAdd(acc, dt), index, N)

\* C16: advancing by d1 and then by d2 ends with the same index and the same
\* accumulator as advancing once by d1 + d2.
C16_SplitIndependent ==
    ~editorMode /\ LoopLength > 0 =>
        \A d1, d2 \in DeltaTimes :
            LET one == Advance(animAccumulator, animationIndex, LoopLength, d1)
            IN  Advance(one[1], one[2], LoopLength, d2)
                  = Advance(animAccumulator, animationIndex, LoopLength, FAdd(d1, d2))

\* C17: with a loop of length 0 (every editor-mode frame included) a frame
\* leaves the whole animation state alone: animationIndex and
\* animAccumulator are unchanged, so no elapsed time reaches the first
\* update that has a non-empty loop.
C17_EmptyLoopNoOp ==
    [][ LoopLength = 0 => UNCHANGED <<animationIndex, animAccumulator>> ]_vars

\* C20: the car's model matrix is exactly T * R * S: the scale once, then
\* the rotation by the frame, then the translation to loop[idx], with no
\* further scale or rotation composed afterwards.
C20_ModelIsTRS ==
    carPlaced =>
        model = MatScale(
                    MatBasis(MatTranslate(MatIdentity, animationPositions[idx + 1]),
                             carRight, carUp, carForward),
                    CarScale)

\* C19: with 1, 2 or 3 control points SPACE treats the empty curve as "no
\* curve yet": no track mesh is built or written, no scene is loaded, and
\* the application stays in editor mode.
C19_NoCurveStaysInEditor ==
    Len(editorControlPoints) \in 1..3 =>
        /\ editorMode
        /\ trackMesh = NoMesh
        /\ filesWritten = {}
        /\ meshes = {}
        /\ bSplineCurves = {}

\* the SPACE handler has run its pipeline
Generated == trackMesh.written

\* the same vertex with y and z exchanged, in position and in normal
Remapped(v) ==
    [x |-> v.x, y |-> v.z, z |-> v.y, s |-> v.s, t |-> v.t,
     nx |-> v.nx, ny |-> v.nz, nz |-> v.ny]

\* C21: generateTrackMesh puts the height in z and the normal (0,0,1) in
\* every vertex; the SPACE handler turns each vertex into (x, height, y)
\* with normal (0,1,0), keeping the UVs, the order and number of vertices
\* and the index buffer; the remap applied twice gives the vertex back.
C21_CallerSwapsYZ ==
    Generated =>
        /\ Len(trackMesh.vertices) = Len(vertices)
        /\ trackMesh.indices = indices
        /\ \A k \in 1..Len(vertices) :
            LET v == vertices[k]
                w == trackMesh.vertices[k]
            IN  /\ v.z.c = 3
                /\ <<v.nx, v.ny, v.nz>> = <<0, 0, 1>>
                /\ <<w.x, w.y, w.z>> = <<v.x, v.z, v.y>>
                /\ <<w.nx, w.ny, w.nz>> = <<0, 1, 0>>
                /\ <<w.s, w.t>> = <<v.s, v.t>>
                /\ Remapped(w) = v

C21_Witness ==
    /\ Generated
    /\ Len(editorControlPoints) = 4
    /\ Len(trackMesh.vertices) = 4 * Len(curvePoints)
    /\ Len(curvePoints) > 0
    /\ trackMesh.vertices[1].y = vertices[1].z

\* a step that handles a + or - key press in editor mode
KeyStep == keyPresses' # keyPresses

\* the float sum of the level and d, kept within [0, maxHeight]
Stepped(level, d) ==
    LET sum == level + d
        f == Sign(sum) * FRound(Abs(sum))
    IN  IF f < 0 THEN 0 ELSE IF f > maxHeight THEN maxHeight ELSE f

LevelsInRange ==
    /\ 0 <= currentYellowLevel /\ currentYellowLevel <= 5 * YUnit
    /\ \A i \in DOMAIN editorPointYellowLevels :
            0 <= editorPointYellowLevels[i] /\ editorPointYellowLevels[i] <= 5 * YUnit

\* C22: after any sequence of clicks and +/- presses the current level and
\* every stored height lie in [0, 5], and each + or - press moves the
\* current level by yellowStep = 0.3f, clamped to that range.
C22_LevelsClamped ==
    /\ []LevelsInRange
    /\ [][KeyStep =>
            currentYellowLevel' \in {Stepped(currentYellowLevel, yellowStep),
                                     Stepped(currentYellowLevel, -yellowStep)}]_vars

C22_Witness ==
    /\ keyPresses = 2
    /\ currentYellowLevel = 5 * YUnit
    /\ editorPointYellowLevels # <<>>
    /\ editorPointYellowLevels[Len(editorPointYellowLevels)] = 5 * YUnit
    /\ LevelAfterPlus(MaxHeadStart) < 5 * YUnit

\* C23: control points are immutable once converted into a curve: in
\* viewer mode no mouse click and no key press changes editorControlPoints,
\* editorPointYellowLevels or currentYellowLevel.
C23_FrozenInViewer ==
    [][~editorMode =>
            UNCHANGED <<editorControlPoints, editorPointYellowLevels,
                        currentYellowLevel>>]_vars

C23_Witness ==
    /\ ~editorMode
    /\ Generated
    /\ Len(editorControlPoints) = 4
    /\ Len(editorPointYellowLevels) = 4
    /\ Len(curvePoints) > 0

\* entry is what reading back the written coordinate gives, if the text
\* keeps its value: the same float where it is known, the reload of that
\* coordinate's text where it is carried as a term
Reloads(entry, coordinate) ==
    IF IsKnown(coordinate) THEN entry = coordinate
    ELSE entry = [parsed |-> [printed |-> coordinate]]

\* C24: export followed by reload preserves the animation path: after SPACE
\* animationPositions has the length and the order of the evaluated curve
\* points, and its i-th entry is (x_i, height_i, y_i) for the i-th curve
\* point (x_i, y_i, height_i).
C24_ReloadKeepsPath ==
    Generated =>
        /\ Len(animationPositions) = Len(curvePoints)
        /\ \A j \in 1..Len(curvePoints) :
            LET cps == CtrlPoints3D(editorControlPoints, editorPointYellowLevels)
            IN  /\ Reloads(animationPositions[j][1], CoordValue(cps, curvePoints[j], 1))
                /\ Reloads(animationPositions[j][2], CoordValue(cps, curvePoints[j], 3))
                /\ Reloads(animationPositions[j][3], CoordValue(cps, curvePoints[j], 2))

\* C25: in car placement over any loop of N >= 3 points the tangent
\* loop[next] - loop[prev] is zero only when prev = next, which never
\* happens for N >= 3: for every index the forward vector is well defined.
C25_TangentNeverZero ==
    carPlaced /\ LoopLength >= 3 =>
        /\ prevIdx # nextIdx
        /\ animationPositions[nextIdx + 1] # animationPositions[prevIdx + 1]
        /\ ~IsNaN(carForward)

\* a step that adds a control point
ClickStep == Len(editorControlPoints') = Len(editorControlPoints) + 1

\* C26: in editor mode a + or - press changes the height of the last added
\* control point only: earlier heights and all positions stay, and a point
\* added afterwards takes the current level as its height; with no points
\* yet, only currentYellowLevel changes.
C26_KeyMovesLastPointOnly ==
    [][ LET n == Len(editorPointYellowLevels)
        IN  /\ KeyStep =>
                /\ editorControlPoints' = editorControlPoints
                /\ Len(editorPointYellowLevels') = n
                /\ \A i \in 1..(n - 1) :
                        editorPointYellowLevels'[i] = editorPointYellowLevels[i]
                /\ n > 0 => editorPointYellowLevels'[n] = currentYellowLevel'
                /\ UNCHANGED <<trackMesh, filesWritten, meshes, bSplineCurves,
                               editorMode, animationPositions>>
            /\ ClickStep =>
                /\ Len(editorPointYellowLevels') = n + 1
                /\ editorPointYellowLevels'[n + 1] = currentYellowLevel
                /\ currentYellowLevel' = currentYellowLevel
                /\ \A i \in 1..n :
                        /\ editorPointYellowLevels'[i] = editorPointYellowLevels[i]
                        /\ editorControlPoints'[i] = editorControlPoints[i] ]_vars

\* two points of different heights, the later one at the level the keys
\* have moved to
C26_Witness ==
    /\ editorMode
    /\ keyPresses > 0
    /\ Len(editorPointYellowLevels) = 3
    /\ editorPointYellowLevels[1] # editorPointYellowLevels[2]
    /\ editorPointYellowLevels[2] # editorPointYellowLevels[3]
    /\ editorPointYellowLevels[3] = currentYellowLevel

\* C27: after any sequence of mouse clicks and key presses
\* editorPointYellowLevels has exactly as many entries as
\* editorControlPoints, so every height lookup by control-point index (the
\* editor's draw loop, the SPACE handler) is in range.
C27_OneHeightPerPoint ==
    /\ Len(editorPointYellowLevels) = Len(editorControlPoints)
    /\ DOMAIN editorControlPoints \subseteq DOMAIN editorPointYellowLevels

\* the SPACE handler has looked up the heights of two points
C27_Witness ==
    /\ Len(editorControlPoints) = 2
    /\ Len(editorPointYellowLevels) = 2
    /\ keyPresses = 1
    /\ Generated

\* what the generation pipeline produces, and the mode
PipelineState ==
    <<trackMesh, filesWritten, meshes, bSplineCurves, animationPositions,
      curvePoints, vertices, indices, editorMode>>

\* C28: the editor-to-viewer switch is one-way and the pipeline runs at most
\* once: editorMode starts true, becomes false only in the SPACE handler
\* with at least one control point, and never becomes true again; SPACE in
\* viewer mode, or in editor mode with no control point, changes nothing.
C28_OneWaySwitch ==
    /\ editorMode = TRUE
    /\ [][ /\ editorMode' => editorMode
           /\ editorMode /\ ~editorMode' =>
                /\ editorControlPoints # <<>>
                /\ ~Generated /\ Generated'
                /\ UNCHANGED <<editorControlPoints, editorPointYellowLevels,
                               currentYellowLevel, keyPresses>>
           /\ ~editorMode \/ editorControlPoints = <<>> =>
                UNCHANGED PipelineState ]_vars

\* the switch made with three control points
C28_Witness ==
    /\ ~editorMode
    /\ Len(editorControlPoints) = 3
    /\ filesWritten = {"track.obj", "animation.txt", "Scene.txt"}
    /\ Generated

\* C29: generateBSplinePoints terminates for every input: whatever the
\* number of control points and the integer pointsPerSegment, the loop
\* over t ends.  The loop runs while t <= 1.0f with a fixed step, so it
\* ends exactly if every pass that is due moves t up.
C29_SamplingLoopEnds ==
    bsPc = "sample" /\ InSegment(bsT) => FAdd(bsT, step) > bsT

\* positions of the curve after which the next point is of another window
WindowEnds ==
    { j \in 1..(Len(curvePoints) - 1) : curvePoints[j].win # curvePoints[j + 1].win }

\* C30: for k >= 5 control points and P >= 1 the last sample of window w is
\* at t = 1 and equals the first sample (t = 0) of window w+1, both being
\* (P[w+1] + 4 P[w+2] + P[w+3]) / 6; so the curve holds k-4 pairs of equal
\* consecutive points, each a zero-length edge for generateTrackMesh.
C30_WindowsShareEnds ==
    CurveDone /\ K >= 5 /\ pointsPerSegment >= 1 =>
        /\ Cardinality(WindowEnds) = K - 4
        /\ \A j \in WindowEnds :
            LET w == curvePoints[j].win
            IN  /\ curvePoints[j + 1].win = w + 1
                /\ curvePoints[j + 1].t = 0
                /\ curvePoints[j].t = FUnit
                /\ CurveValue(curvePoints[j]) = CurveValue(curvePoints[j + 1])
                /\ CurveValue(curvePoints[j]) =
                       [c \in 1..3 |-> controlPoints[w + 2][c]
                                       + 4 * controlPoints[w + 3][c]
                                       + controlPoints[w + 4][c]]

====
